---- MODULE Spec2Model ----
(***************************************************************************)
(* Model of gateway_code/gateway_roomba.py: the GatewayRoomba controller,  *)
(* its calling thread, the watchdog thread (_watch_roomba) and the serial  *)
(* thread of the roomba library (robot.interfaceSerial).                   *)
(*                                                                         *)
(* Granularity: one step per access to a field shared between threads      *)
(* (status, battery, sensor_list, watch_run, serial_run, qsend).  Code     *)
(* that touches only locals is folded into the shared access before it.    *)
(***************************************************************************)
EXTENDS Integers, Sequences, FiniteSets, TLC

\* ------------------------------------------------------------- bounds
\* Commands waiting in robot.qsend (an unbounded Queue in the code).
MaxQueue == 1

\* ------------------------------------------------------------- constants
\* STATUS, gateway_roomba.py:15-16.
STATUS ==
  [s \in {"error", "closed", "init", "docked", "moving", "paused", "searching_dock"} |->
     CASE s = "error" -> -1
       [] s = "closed" -> 0
       [] s = "init" -> 1
       [] s = "docked" -> 2
       [] s = "moving" -> 3
       [] s = "paused" -> 4
       [] s = "searching_dock" -> 4]

StatusNames == DOMAIN STATUS

\* The mode commands the controller puts on robot.qsend.
Modes == {"clean", "dock", "safe"}

\* Values of the sensor fields of a frame (robot.q.get()).
Flags == {0, 1}
\* (BATTERY_CHARGE, BATTERY_CAPACITY) readings.
NominalBattery == <<29, 100>>
BatteryReadings == {NominalBattery, <<250, 200>>, <<50, 0>>}
\* (POS_X, POS_Y, POS_Z) readings.
Origin == <<0, 0, 0>>
Positions == {Origin, <<1, 2, 3>>}
\* (LEFT_WHEEL_OVERCURRENT, RIGHT_WHEEL_OVERCURRENT) readings.
NoOvercurrent == <<0, 0>>
Overcurrents == {NoOvercurrent, <<1, 0>>, <<0, 1>>}
\* (LEFT_WHEEL_DROP, RIGHT_WHEEL_DROP) readings.
NoWheelDrop == <<0, 0>>
WheelDrops == {NoWheelDrop, <<1, 0>>, <<0, 1>>}

Frame(home, oc, drop, bat, pos) ==
  [HOME_BASE |-> home,
   LEFT_WHEEL_OVERCURRENT |-> oc[1], RIGHT_WHEEL_OVERCURRENT |-> oc[2],
   LEFT_WHEEL_DROP |-> drop[1], RIGHT_WHEEL_DROP |-> drop[2],
   BATTERY_CHARGE |-> bat[1], BATTERY_CAPACITY |-> bat[2],
   POS_X |-> pos[1], POS_Y |-> pos[2], POS_Z |-> pos[3]]

\* The frames the serial thread can decode: every combination of home base,
\* wheel drop, battery and position readings, and the overcurrent readings
\* (which the watchdog only logs) on an otherwise quiet frame.
Frames ==
  {Frame(home, NoOvercurrent, drop, bat, pos) :
     home \in Flags, drop \in WheelDrops, bat \in BatteryReadings, pos \in Positions}
  \cup {Frame(0, oc, NoWheelDrop, NominalBattery, Origin) : oc \in Overcurrents}

\* self.sensor_list = None (gateway_roomba.py:37): no frame read yet.
NoFrame == Frame(-1, <<-1, -1>>, <<-1, -1>>, <<-1, -1>>, <<-1, -1, -1>>)

\* ------------------------------------------------------------- state
VARIABLES
  status,        \* self.status
  battery,       \* self.battery
  watch_run,     \* self.watch_run
  sensor_list,   \* self.sensor_list
  robot_connect, \* self.robot.connect
  serial_run,    \* self.robot.serial_run
  qsend,         \* self.robot.qsend
  robot_pos,     \* odometry kept by the roomba library
  serial_open,   \* the serial handle of the roomba library
  pc,            \* calling thread: position in the running operation
  op,            \* calling thread: the operation running or last returned
  seen,          \* calling thread: self.status as read by the precondition
  ret,           \* calling thread: what the last operation returned or raised
  call_puts,     \* calling thread: commands the running operation has put
  posx, posy,    \* calling thread: locals of get_position
  pc_w,          \* watchdog thread: position in _watch_roomba
  pc_s           \* serial thread: position in robot.interfaceSerial

vars == <<status, battery, watch_run, sensor_list, robot_connect, serial_run,
          qsend, robot_pos, serial_open, pc, op, seen, ret, call_puts,
          posx, posy, pc_w, pc_s>>

gateway == <<status, battery, watch_run, sensor_list>>
robot == <<robot_connect, serial_run, qsend, robot_pos, serial_open>>
caller == <<pc, op, seen, ret, call_puts, posx, posy>>
locals == <<seen, call_puts, posx, posy>>

\* What an operation hands back to its caller.
RetNone == [kind |-> "none", val |-> 0]
RetInt(n) == [kind |-> "int", val |-> n]
RetStatus(s) == [kind |-> "status", val |-> s]
RetPos(p) == [kind |-> "pos", val |-> p]
Raised(e) == [kind |-> "raise", val |-> e]

\* threading.Thread.is_alive() of watch_thread and serial_thread.
WatchAlive == pc_w \notin {"none", "done", "crashed"}
SerialAlive == pc_s = "running"

\* ------------------------------------------------------------- __init__
\* gateway_roomba.py:29-39: the fields are set and init_roomba is about to run.
Init ==
  /\ status = "init"
  /\ battery = -1
  /\ watch_run = FALSE
  /\ sensor_list = NoFrame
  /\ robot_connect = FALSE
  /\ serial_run = FALSE
  /\ qsend = <<>>
  /\ robot_pos = Origin
  /\ serial_open = FALSE
  /\ pc = "init_open"
  /\ op = "init_roomba"
  /\ seen = "none"
  /\ ret = RetNone
  /\ call_puts = <<>>
  /\ posx = 0
  /\ posy = 0
  /\ pc_w = "none"
  /\ pc_s = "none"

\* A public operation is entered by the calling thread.
Enter(name) ==
  /\ pc = "idle"
  /\ op' = name

\* The running operation returns r (or raises it).
Return(r) ==
  /\ pc' = "idle"
  /\ ret' = r
  /\ seen' = "none"
  /\ call_puts' = <<>>
  /\ posx' = 0
  /\ posy' = 0

\* self.robot.qsend.put({'changeMode': mode})
Put(mode) ==
  /\ Len(qsend) < MaxQueue
  /\ qsend' = Append(qsend, mode)

\* ------------------------------------------------------------- init_roomba
\* The caller invokes init_roomba again after a connection failure.
InitCall ==
  /\ pc = "idle"
  /\ status = "error"
  /\ ~WatchAlive /\ ~SerialAlive
  /\ pc' = "init_open"
  /\ op' = "init_roomba"
  /\ ret' = RetNone
  /\ UNCHANGED <<gateway, robot, locals, pc_w, pc_s>>

\* Mutation: a connection failure is reported but status stays 'init'.
InitOpenKeepsInit ==
  /\ pc = "init_open"
  /\ \E connect \in BOOLEAN :
       /\ robot_connect' = connect
       /\ qsend' = <<>>
       /\ robot_pos' = Origin
       /\ serial_open' = connect
       /\ status' = "init"
       /\ IF connect = FALSE
            THEN /\ Return(RetInt(1))
                 /\ UNCHANGED <<serial_run, pc_s, op>>
            ELSE /\ serial_run' = TRUE
                 /\ pc_s' = "running"
                 /\ pc' = "init_sleep"
                 /\ UNCHANGED <<op, ret, locals>>
  /\ UNCHANGED <<battery, watch_run, sensor_list, pc_w>>

\* gateway_roomba.py:48-62: a new Roomba500 is made; robot.connect decides.
InitOpen ==
  /\ pc = "init_open"
  /\ \E connect \in BOOLEAN :
       /\ robot_connect' = connect
       /\ qsend' = <<>>
       /\ robot_pos' = Origin
       /\ serial_open' = connect
       /\ IF connect = FALSE
            THEN /\ status' = "error"
                 /\ Return(RetInt(1))
                 /\ UNCHANGED <<serial_run, pc_s, op>>
            ELSE /\ status' = "init"
                 /\ serial_run' = TRUE
                 /\ pc_s' = "running"
                 /\ pc' = "init_sleep"
                 /\ UNCHANGED <<op, ret, locals>>
  /\ UNCHANGED <<battery, watch_run, sensor_list, pc_w>>

\* gateway_roomba.py:64-68: after the sleep the watchdog thread is started.
InitWatch ==
  /\ pc = "init_sleep"
  /\ watch_run' = TRUE
  /\ pc_w' = "w_loop"
  /\ Return(RetInt(0))
  /\ UNCHANGED <<status, battery, sensor_list, robot, op, pc_s>>

\* ------------------------------------------------------------- close_roomba
\* gateway_roomba.py:74: called once, after init_roomba succeeded.
CloseStatus ==
  /\ Enter("close_roomba")
  /\ SerialAlive
  /\ status' = "closed"
  /\ pc' = "close_flag"
  /\ ret' = RetNone
  /\ UNCHANGED <<battery, watch_run, sensor_list, robot, locals, pc_w, pc_s>>

\* gateway_roomba.py:77
CloseFlag ==
  /\ pc = "close_flag"
  /\ watch_run' = FALSE
  /\ pc' = "close_join_watch"
  /\ UNCHANGED <<status, battery, sensor_list, robot, op, ret, locals, pc_w, pc_s>>

\* Mutation: close_roomba does not wait for the watchdog thread.
CloseJoinWatchNoWait ==
  /\ pc = "close_join_watch"
  /\ serial_run' = FALSE
  /\ pc' = "close_join_serial"
  /\ UNCHANGED <<gateway, robot_connect, qsend, robot_pos, serial_open,
                 op, ret, locals, pc_w, pc_s>>

\* gateway_roomba.py:78-80: watch_thread.join() returns, sleep, serial_run = False.
CloseJoinWatch ==
  /\ pc = "close_join_watch"
  /\ ~WatchAlive
  /\ serial_run' = FALSE
  /\ pc' = "close_join_serial"
  /\ UNCHANGED <<gateway, robot_connect, qsend, robot_pos, serial_open,
                 op, ret, locals, pc_w, pc_s>>

\* gateway_roomba.py:81-84: serial_thread.join() returns, robot.close(), return 0.
CloseJoinSerial ==
  /\ pc = "close_join_serial"
  /\ ~SerialAlive
  /\ serial_open' = FALSE
  /\ Return(RetInt(0))
  /\ UNCHANGED <<gateway, robot_connect, serial_run, qsend, robot_pos,
                 op, pc_w, pc_s>>

\* ------------------------------------------------------------- start
\* Mutation: the precondition compares the rank with 0 instead of 1.
StartCheckBelowZero ==
  /\ Enter("start")
  /\ IF STATUS[status] < 0
       THEN /\ Return(RetInt(1))
       ELSE /\ seen' = status
            /\ pc' = "start_put"
            /\ ret' = RetNone
            /\ UNCHANGED <<call_puts, posx, posy>>
  /\ UNCHANGED <<gateway, robot, pc_w, pc_s>>

\* gateway_roomba.py:91-94
StartCheck ==
  /\ Enter("start")
  /\ IF STATUS[status] < 1
       THEN /\ Return(RetInt(1))
       ELSE /\ seen' = status
            /\ pc' = "start_put"
            /\ ret' = RetNone
            /\ UNCHANGED <<call_puts, posx, posy>>
  /\ UNCHANGED <<gateway, robot, pc_w, pc_s>>

\* Mutation: start puts the command of stop.
StartPutDock ==
  /\ pc = "start_put"
  /\ Put("dock")
  /\ call_puts' = Append(call_puts, "dock")
  /\ pc' = "start_set"
  /\ UNCHANGED <<gateway, robot_connect, serial_run, robot_pos, serial_open,
                 op, seen, ret, posx, posy, pc_w, pc_s>>

\* gateway_roomba.py:97
StartPut ==
  /\ pc = "start_put"
  /\ Put("clean")
  /\ call_puts' = Append(call_puts, "clean")
  /\ pc' = "start_set"
  /\ UNCHANGED <<gateway, robot_connect, serial_run, robot_pos, serial_open,
                 op, seen, ret, posx, posy, pc_w, pc_s>>

\* gateway_roomba.py:98-100
StartSet ==
  /\ pc = "start_set"
  /\ status' = "moving"
  /\ Return(RetInt(0))
  /\ UNCHANGED <<battery, watch_run, sensor_list, robot, op, pc_w, pc_s>>

\* ------------------------------------------------------------- stop
\* gateway_roomba.py:107-111
StopCheck ==
  /\ Enter("stop")
  /\ IF STATUS[status] < 1
       THEN /\ Return(RetInt(1))
       ELSE /\ seen' = status
            /\ pc' = "stop_put1"
            /\ ret' = RetNone
            /\ UNCHANGED <<call_puts, posx, posy>>
  /\ UNCHANGED <<gateway, robot, pc_w, pc_s>>

\* gateway_roomba.py:114-116: the first put, then the sleep.
StopPut1 ==
  /\ pc = "stop_put1"
  /\ Put("dock")
  /\ call_puts' = Append(call_puts, "dock")
  /\ pc' = "stop_put2"
  /\ UNCHANGED <<gateway, robot_connect, serial_run, robot_pos, serial_open,
                 op, seen, ret, posx, posy, pc_w, pc_s>>

\* Mutation: the second put is left out.
StopPut2Skipped ==
  /\ pc = "stop_put2"
  /\ pc' = "stop_set"
  /\ UNCHANGED <<gateway, robot, op, seen, ret, call_puts, posx, posy, pc_w, pc_s>>

\* gateway_roomba.py:117
StopPut2 ==
  /\ pc = "stop_put2"
  /\ Put("dock")
  /\ call_puts' = Append(call_puts, "dock")
  /\ pc' = "stop_set"
  /\ UNCHANGED <<gateway, robot_connect, serial_run, robot_pos, serial_open,
                 op, seen, ret, posx, posy, pc_w, pc_s>>

\* gateway_roomba.py:118-120
StopSet ==
  /\ pc = "stop_set"
  /\ status' = "searching_dock"
  /\ Return(RetInt(0))
  /\ UNCHANGED <<battery, watch_run, sensor_list, robot, op, pc_w, pc_s>>

\* ------------------------------------------------------------- motion_pause
\* Mutation: the precondition compares ranks (moving or above) instead of names.
PauseCheckByRank ==
  /\ Enter("motion_pause")
  /\ IF STATUS[status] >= STATUS["moving"]
       THEN /\ seen' = status
            /\ pc' = "pause_put"
            /\ ret' = RetNone
            /\ UNCHANGED <<call_puts, posx, posy>>
       ELSE /\ Return(RetInt(1))
  /\ UNCHANGED <<gateway, robot, pc_w, pc_s>>

\* gateway_roomba.py:160-162 and 166-170
PauseCheck ==
  /\ Enter("motion_pause")
  /\ IF status = "moving"
       THEN /\ seen' = status
            /\ pc' = "pause_put"
            /\ ret' = RetNone
            /\ UNCHANGED <<call_puts, posx, posy>>
       ELSE /\ Return(RetInt(1))
  /\ UNCHANGED <<gateway, robot, pc_w, pc_s>>

\* gateway_roomba.py:164
PausePut ==
  /\ pc = "pause_put"
  /\ Put("safe")
  /\ call_puts' = Append(call_puts, "safe")
  /\ pc' = "pause_set"
  /\ UNCHANGED <<gateway, robot_connect, serial_run, robot_pos, serial_open,
                 op, seen, ret, posx, posy, pc_w, pc_s>>

\* gateway_roomba.py:165 and 170; st_return was set to 1 at line 162.
PauseSet ==
  /\ pc = "pause_set"
  /\ status' = "paused"
  /\ Return(RetInt(1))
  /\ UNCHANGED <<battery, watch_run, sensor_list, robot, op, pc_w, pc_s>>

\* ------------------------------------------------------------- motion_continue
\* Mutation: the precondition compares ranks; searching_dock ranks as paused.
ContinueCheckByRank ==
  /\ Enter("motion_continue")
  /\ IF STATUS[status] = STATUS["paused"]
       THEN /\ seen' = status
            /\ pc' = "continue_put"
            /\ ret' = RetNone
            /\ UNCHANGED <<call_puts, posx, posy>>
       ELSE /\ Return(RetInt(1))
  /\ UNCHANGED <<gateway, robot, pc_w, pc_s>>

\* gateway_roomba.py:177-179 and 183-187
ContinueCheck ==
  /\ Enter("motion_continue")
  /\ IF status = "paused"
       THEN /\ seen' = status
            /\ pc' = "continue_put"
            /\ ret' = RetNone
            /\ UNCHANGED <<call_puts, posx, posy>>
       ELSE /\ Return(RetInt(1))
  /\ UNCHANGED <<gateway, robot, pc_w, pc_s>>

\* gateway_roomba.py:181
ContinuePut ==
  /\ pc = "continue_put"
  /\ Put("clean")
  /\ call_puts' = Append(call_puts, "clean")
  /\ pc' = "continue_set"
  /\ UNCHANGED <<gateway, robot_connect, serial_run, robot_pos, serial_open,
                 op, seen, ret, posx, posy, pc_w, pc_s>>

\* gateway_roomba.py:182 and 187; st_return was set to 1 at line 179.
ContinueSet ==
  /\ pc = "continue_set"
  /\ status' = "moving"
  /\ Return(RetInt(1))
  /\ UNCHANGED <<battery, watch_run, sensor_list, robot, op, pc_w, pc_s>>

\* ------------------------------------------------------------- motion_searchdock
\* Mutation: the precondition turns down 'closed' only.
SearchDockCheckClosedOnly ==
  /\ Enter("motion_searchdock")
  /\ IF STATUS[status] = 0
       THEN /\ Return(RetInt(1))
       ELSE /\ seen' = status
            /\ pc' = "searchdock_put"
            /\ ret' = RetNone
            /\ UNCHANGED <<call_puts, posx, posy>>
  /\ UNCHANGED <<gateway, robot, pc_w, pc_s>>

\* gateway_roomba.py:194-197
SearchDockCheck ==
  /\ Enter("motion_searchdock")
  /\ IF STATUS[status] < 1
       THEN /\ Return(RetInt(1))
       ELSE /\ seen' = status
            /\ pc' = "searchdock_put"
            /\ ret' = RetNone
            /\ UNCHANGED <<call_puts, posx, posy>>
  /\ UNCHANGED <<gateway, robot, pc_w, pc_s>>

\* gateway_roomba.py:200
SearchDockPut ==
  /\ pc = "searchdock_put"
  /\ Put("dock")
  /\ call_puts' = Append(call_puts, "dock")
  /\ pc' = "searchdock_set"
  /\ UNCHANGED <<gateway, robot_connect, serial_run, robot_pos, serial_open,
                 op, seen, ret, posx, posy, pc_w, pc_s>>

\* gateway_roomba.py:201-203
SearchDockSet ==
  /\ pc = "searchdock_set"
  /\ status' = "searching_dock"
  /\ Return(RetInt(0))
  /\ UNCHANGED <<battery, watch_run, sensor_list, robot, op, pc_w, pc_s>>

\* ------------------------------------------------------------- readers
\* gateway_roomba.py:122-127
GetStatus ==
  /\ Enter("get_status")
  /\ Return(RetStatus(status))
  /\ UNCHANGED <<gateway, robot, pc_w, pc_s>>

\* Mutation: the precondition compares the rank with 0 instead of 1.
GetBatteryCheckBelowZero ==
  /\ Enter("get_battery")
  /\ seen' = status
  /\ ret' = RetNone
  /\ pc' = IF STATUS[status] < 0 THEN "battery_set" ELSE "battery_ret"
  /\ UNCHANGED <<gateway, robot, call_puts, posx, posy, pc_w, pc_s>>

\* gateway_roomba.py:134: the precondition of get_battery.
GetBatteryCheck ==
  /\ Enter("get_battery")
  /\ seen' = status
  /\ ret' = RetNone
  /\ pc' = IF STATUS[status] < 1 THEN "battery_set" ELSE "battery_ret"
  /\ UNCHANGED <<gateway, robot, call_puts, posx, posy, pc_w, pc_s>>

\* gateway_roomba.py:135-136
GetBatterySet ==
  /\ pc = "battery_set"
  /\ battery' = -1
  /\ pc' = "battery_ret"
  /\ UNCHANGED <<status, watch_run, sensor_list, robot, op, ret, locals, pc_w, pc_s>>

\* gateway_roomba.py:138
GetBatteryReturn ==
  /\ pc = "battery_ret"
  /\ Return(RetInt(battery))
  /\ UNCHANGED <<gateway, robot, op, pc_w, pc_s>>

\* gateway_roomba.py:145-148 and 152.  Below 'init' no local is bound and
\* line 152 raises UnboundLocalError; with sensor_list still None line 148
\* raises TypeError.
GetPositionCheck ==
  /\ Enter("get_position")
  /\ IF STATUS[status] < 1
       THEN Return(Raised("UnboundLocalError"))
       ELSE IF sensor_list = NoFrame
              THEN Return(Raised("TypeError"))
              ELSE /\ seen' = status
                   /\ posx' = sensor_list.POS_X
                   /\ pc' = "position_y"
                   /\ ret' = RetNone
                   /\ UNCHANGED <<call_puts, posy>>
  /\ UNCHANGED <<gateway, robot, pc_w, pc_s>>

\* gateway_roomba.py:149
GetPositionY ==
  /\ pc = "position_y"
  /\ posy' = sensor_list.POS_Y
  /\ pc' = "position_z"
  /\ UNCHANGED <<gateway, robot, op, seen, ret, call_puts, posx, pc_w, pc_s>>

\* gateway_roomba.py:150-152
GetPositionZ ==
  /\ pc = "position_z"
  /\ Return(RetPos(<<posx, posy, sensor_list.POS_Z>>))
  /\ UNCHANGED <<gateway, robot, op, pc_w, pc_s>>

\* ------------------------------------------------------------- _watch_roomba
\* ---- IEEE 754 double arithmetic, as far as line 235 needs it.  A positive
\* double is [hi, mid, lo, e]: its 53 mantissa bits cut into limbs of 17, 18
\* and 18 bits (hi has its top bit set) and the exponent e of the first
\* bit, so that the value is (hi * 2^36 + mid * 2^18 + lo) * 2^(e - 52).
LimbBits == 18
HiBits == 17

RECURSIVE Pow2(_)
Pow2(n) == IF n = 0 THEN 1 ELSE 2 * Pow2(n - 1)

Limb == Pow2(LimbBits)
HiTop == Pow2(HiBits - 1)

\* Round to nearest, ties to even: guard is the first bit dropped, sticky
\* tells that a nonzero bit follows it.
RoundToDouble(hi, mid, lo, e, guard, sticky) ==
  IF ~(guard = 1 /\ (sticky \/ lo % 2 = 1))
    THEN [hi |-> hi, mid |-> mid, lo |-> lo, e |-> e]
    ELSE IF lo + 1 < Limb
      THEN [hi |-> hi, mid |-> mid, lo |-> lo + 1, e |-> e]
      ELSE IF mid + 1 < Limb
        THEN [hi |-> hi, mid |-> mid + 1, lo |-> 0, e |-> e]
        ELSE IF hi + 1 < 2 * HiTop
          THEN [hi |-> hi + 1, mid |-> 0, lo |-> 0, e |-> e]
          ELSE [hi |-> HiTop, mid |-> 0, lo |-> 0, e |-> e + 1]

\* k more binary digits of r / d (0 <= r < d): the digits q and what is left.
RECURSIVE LongDiv(_, _, _, _)
LongDiv(q, r, d, k) ==
  IF k = 0 THEN [q |-> q, r |-> r]
  ELSE IF 2 * r >= d THEN LongDiv(2 * q + 1, 2 * r - d, d, k - 1)
                     ELSE LongDiv(2 * q, 2 * r, d, k - 1)

\* The least j with c * 2^j >= d, and the greatest k with d * 2^k <= c.
RECURSIVE ShiftUp(_, _)
ShiftUp(c, d) == IF c >= d THEN 0 ELSE 1 + ShiftUp(2 * c, d)

RECURSIVE ShiftDown(_, _)
ShiftDown(c, d) == IF 2 * d > c THEN 0 ELSE 1 + ShiftDown(c, 2 * d)

\* float(c) / float(d) for integers c, d > 0.
FloatDiv(c, d) ==
  LET up == ShiftUp(c, d)
      down == ShiftDown(c, d)
      n == c * Pow2(up)
      dd == d * Pow2(down)
      hi == LongDiv(1, n - dd, dd, HiBits - 1)
      mid == LongDiv(0, hi.r, dd, LimbBits)
      lo == LongDiv(0, mid.r, dd, LimbBits)
      guard == LongDiv(0, lo.r, dd, 1)
  IN RoundToDouble(hi.q, mid.q, lo.q, down - up, guard.q, guard.r # 0)

\* The number of binary digits of n > 0.
RECURSIVE BitLength(_)
BitLength(n) == IF n = 0 THEN 0 ELSE 1 + BitLength(n \div 2)

\* x * 100.0 for a positive double x.
FloatTimes100(x) ==
  LET p3 == x.lo * 100
      p2 == x.mid * 100 + p3 \div Limb
      p1 == x.hi * 100 + p2 \div Limb
      s == BitLength(p1) - HiBits
      cut == Pow2(s)
      keep == Pow2(LimbBits - s)
      dropped == (p3 % Limb) % cut
  IN RoundToDouble(p1 \div cut,
                   (p1 % cut) * keep + (p2 % Limb) \div cut,
                   ((p2 % Limb) % cut) * keep + (p3 % Limb) \div cut,
                   x.e + s,
                   dropped \div Pow2(s - 1),
                   dropped % Pow2(s - 1) # 0)

\* int(x) for a positive double x below 2^31: the digits before the point.
FloatToInt(x) ==
  IF x.e < 0 THEN 0
  ELSE IF x.e < HiBits THEN x.hi \div Pow2(HiBits - 1 - x.e)
  ELSE x.hi * Pow2(x.e - (HiBits - 1)) + x.mid \div Pow2(LimbBits - (x.e - (HiBits - 1)))

\* int((bat_charge / bat_cap) * 100) with bat_charge a float,
\* gateway_roomba.py:233-235 (bat_cap # 0, bat_charge >= 0).
BatteryOf(charge, cap) ==
  IF charge = 0 THEN 0 ELSE FloatToInt(FloatTimes100(FloatDiv(charge, cap)))

\* gateway_roomba.py:211 and 247
WatchLoop ==
  /\ pc_w = "w_loop"
  /\ pc_w' = IF watch_run = TRUE THEN "w_get" ELSE "done"
  /\ UNCHANGED <<gateway, robot, caller, pc_s>>

\* gateway_roomba.py:212: robot.q.get() hands over the next frame the serial
\* thread decoded.
WatchGet ==
  /\ pc_w = "w_get"
  /\ SerialAlive
  /\ \E frame \in Frames :
       /\ sensor_list' = frame
       /\ robot_pos' = <<frame.POS_X, frame.POS_Y, frame.POS_Z>>
  /\ pc_w' = "w_error"
  /\ UNCHANGED <<status, battery, watch_run, robot_connect, serial_run, qsend,
                 serial_open, caller, pc_s>>

\* gateway_roomba.py:215-217
WatchError ==
  /\ pc_w = "w_error"
  /\ IF status = "error" THEN Put("safe") ELSE UNCHANGED qsend
  /\ pc_w' = "w_rank"
  /\ UNCHANGED <<gateway, robot_connect, serial_run, robot_pos, serial_open,
                 caller, pc_s>>

\* gateway_roomba.py:219
WatchRank ==
  /\ pc_w = "w_rank"
  /\ pc_w' = IF STATUS[status] > 1 THEN "w_home" ELSE "w_loop"
  /\ UNCHANGED <<gateway, robot, caller, pc_s>>

\* gateway_roomba.py:221, first two conjuncts (and short-circuits).
WatchHome ==
  /\ pc_w = "w_home"
  /\ pc_w' = IF sensor_list.HOME_BASE = 1 /\ status # "docked"
               THEN "w_home_moving" ELSE "w_drop"
  /\ UNCHANGED <<gateway, robot, caller, pc_s>>

\* gateway_roomba.py:221, third conjunct.
WatchHomeMoving ==
  /\ pc_w = "w_home_moving"
  /\ pc_w' = IF status # "moving" THEN "w_docked" ELSE "w_drop"
  /\ UNCHANGED <<gateway, robot, caller, pc_s>>

\* gateway_roomba.py:222-224
WatchDocked ==
  /\ pc_w = "w_docked"
  /\ status' = "docked"
  /\ robot_pos' = Origin
  /\ pc_w' = "w_drop"
  /\ UNCHANGED <<battery, watch_run, sensor_list, robot_connect, serial_run, qsend,
                 serial_open, caller, pc_s>>

\* Mutation: only the left wheel's drop flag is tested.
WatchDropLeftOnly ==
  /\ pc_w = "w_drop"
  /\ IF sensor_list.LEFT_WHEEL_DROP # 0
       THEN status' = "init"
       ELSE UNCHANGED status
  /\ pc_w' = "w_battery"
  /\ UNCHANGED <<battery, watch_run, sensor_list, robot, caller, pc_s>>

\* gateway_roomba.py:226-231: overcurrent is only logged; a wheel drop
\* forces 'init'.
WatchDrop ==
  /\ pc_w = "w_drop"
  /\ IF sensor_list.LEFT_WHEEL_DROP # 0 \/ sensor_list.RIGHT_WHEEL_DROP # 0
       THEN status' = "init"
       ELSE UNCHANGED status
  /\ pc_w' = "w_battery"
  /\ UNCHANGED <<battery, watch_run, sensor_list, robot, caller, pc_s>>

\* gateway_roomba.py:233-244: a zero capacity raises ZeroDivisionError and
\* ends the thread; the position log (line 237) writes nothing; sleep.
WatchBattery ==
  /\ pc_w = "w_battery"
  /\ IF sensor_list.BATTERY_CAPACITY = 0
       THEN /\ pc_w' = "crashed"
            /\ UNCHANGED battery
       ELSE /\ battery' = BatteryOf(sensor_list.BATTERY_CHARGE, sensor_list.BATTERY_CAPACITY)
            /\ pc_w' = "w_loop"
  /\ UNCHANGED <<status, watch_run, sensor_list, robot, caller, pc_s>>

\* ------------------------------------------------------------- serial thread
\* robot.interfaceSerial sends the queued commands in order.
SerialSend ==
  /\ pc_s = "running"
  /\ qsend # <<>>
  /\ qsend' = Tail(qsend)
  /\ UNCHANGED <<gateway, robot_connect, serial_run, robot_pos, serial_open,
                 caller, pc_w, pc_s>>

\* robot.interfaceSerial ends once serial_run is False.
SerialExit ==
  /\ pc_s = "running"
  /\ serial_run = FALSE
  /\ pc_s' = "done"
  /\ UNCHANGED <<gateway, robot, caller, pc_w>>

\* ------------------------------------------------------------- specification
Caller ==
  \/ InitCall \/ InitOpen \/ InitWatch
  \/ CloseStatus \/ CloseFlag \/ CloseJoinWatch \/ CloseJoinSerial
  \/ StartCheck \/ StartPut \/ StartSet
  \/ StopCheck \/ StopPut1 \/ StopPut2 \/ StopSet
  \/ PauseCheck \/ PausePut \/ PauseSet
  \/ ContinueCheck \/ ContinuePut \/ ContinueSet
  \/ SearchDockCheck \/ SearchDockPut \/ SearchDockSet
  \/ GetStatus
  \/ GetBatteryCheck \/ GetBatterySet \/ GetBatteryReturn
  \/ GetPositionCheck \/ GetPositionY \/ GetPositionZ

Watchdog ==
  \/ WatchLoop \/ WatchGet \/ WatchError \/ WatchRank
  \/ WatchHome \/ WatchHomeMoving \/ WatchDocked \/ WatchDrop \/ WatchBattery

Serial == SerialSend \/ SerialExit

Next == Caller \/ Watchdog \/ Serial

Spec == Init /\ [][Next]_vars

\* ---- scheduling.  Every thread that can take a step gets to take it: the
\* calling thread goes on with the method it is in, the serial thread runs,
\* and the watchdog runs except where it waits in robot.q.get() (line 212),
\* which returns only when a frame arrives; nothing makes a frame arrive and
\* nothing makes the user call a method.
CallerContinues == pc # "idle" /\ Caller
WatchdogRuns == pc_w # "w_get" /\ Watchdog

FairSpec ==
  /\ Spec
  /\ WF_vars(CallerContinues)
  /\ WF_vars(WatchdogRuns)
  /\ WF_vars(Serial)

\* ------------------------------------------------------------- observing calls
Commands == {"start", "stop", "motion_pause", "motion_continue", "motion_searchdock"}

\* A step of the calling thread (no other thread writes its variables).
CallerStep == caller' # caller

\* The step in which the calling thread invokes operation name.
Called(name) == pc = "idle" /\ op' = name /\ CallerStep

\* The step in which operation name, having passed its precondition, returns.
ReturnsAccepted(name) == op = name /\ pc # "idle" /\ pc' = "idle"

\* The operation was turned down by the step that invoked it.
RejectedAtOnce ==
  /\ pc' = "idle"
  /\ ret'.kind = "int" /\ ret'.val # 0
  /\ status' = status
  /\ qsend' = qsend

\* call_puts lists exactly the commands the running operation put on qsend.
PutsAreRecorded ==
  (CallerStep /\ op' \in Commands) =>
     \/ qsend' = qsend /\ call_puts' \in {call_puts, <<>>}
     \/ \E mode \in Modes : /\ qsend' = Append(qsend, mode)
                            /\ call_puts' = Append(call_puts, mode)

\* ------------------------------------------------------------- claims
\* C1: after close_roomba returns, status is 'closed' and neither the
\* watchdog thread nor the serial thread is alive, whatever the watchdog was
\* doing with a frame while close_roomba ran.
C1_ClosedAfterClose ==
  (pc = "idle" /\ op = "close_roomba") =>
     (status = "closed" /\ ~WatchAlive /\ ~SerialAlive)

\* C2: start, stop and motion_searchdock invoked while status ranks below
\* 'init' (closed or error) return nonzero at once, leave status unchanged
\* and put no command on qsend.
C2_RejectedBelowInit ==
  [][\A name \in {"start", "stop", "motion_searchdock"} :
       (Called(name) /\ STATUS[status] < 1) => RejectedAtOnce]_vars

C2_Witness ==
  /\ pc = "idle" /\ op = "start" /\ status = "closed"
  /\ ret = RetInt(1)

\* C3: motion_pause goes ahead only when it reads status 'moving', and then
\* puts exactly one 'safe' command and sets status to 'paused'; invoked in
\* any other status it returns nonzero at once, puts no command and leaves
\* status unchanged.
C3_PauseOnlyWhenMoving ==
  [][/\ (Called("motion_pause") /\ status # "moving") => RejectedAtOnce
     /\ (Called("motion_pause") /\ status = "moving") =>
           (pc' # "idle" /\ status' = status /\ qsend' = qsend)
     /\ ReturnsAccepted("motion_pause") =>
           (call_puts = <<"safe">> /\ status' = "paused")
     /\ PutsAreRecorded]_vars

C3_Witness ==
  /\ pc = "idle" /\ op = "motion_pause" /\ status = "paused"
  /\ pc_w = "w_get" /\ qsend = <<"safe">>

\* C4: every command returns 0 exactly when it was accepted (it passed its
\* precondition and put its command) and nonzero exactly when it was rejected.
C4_ZeroIffAccepted ==
  [][(CallerStep /\ op' \in Commands /\ pc' = "idle") =>
        (ret'.kind = "int" /\ (ret'.val = 0 <=> call_puts # <<>>))]_vars

\* C5: init_roomba on a connection failure sets status 'error', returns
\* nonzero and starts neither thread; on a connection it returns 0 with
\* status 'init' and both threads started, the serial thread first.
C5_InitOutcome ==
  [][/\ ReturnsAccepted("init_roomba") =>
          IF robot_connect' = FALSE
            THEN /\ status' = "error"
                 /\ ret'.kind = "int" /\ ret'.val # 0
                 /\ ~WatchAlive' /\ ~SerialAlive'
            ELSE /\ status' = "init"
                 /\ ret' = RetInt(0)
                 /\ WatchAlive' /\ SerialAlive'
     /\ (~WatchAlive /\ WatchAlive') => SerialAlive]_vars

C5_Witness ==
  /\ pc = "idle" /\ op = "init_roomba" /\ status = "error"
  /\ ret = RetInt(1) /\ robot_connect = FALSE

\* C6: start invoked while status is init, docked, moving, paused or
\* searching_dock is accepted, puts exactly one 'clean' command, sets status
\* to 'moving' and returns 0.
C6_StartAccepted ==
  [][/\ (Called("start") /\ STATUS[status] >= 1) =>
           (pc' # "idle" /\ seen' = status /\ status' = status /\ qsend' = qsend)
     /\ ReturnsAccepted("start") =>
           (call_puts = <<"clean">> /\ status' = "moving" /\ ret' = RetInt(0))
     /\ PutsAreRecorded]_vars

C6_Witness ==
  /\ pc = "idle" /\ op = "start" /\ status = "moving"
  /\ ret = RetInt(0) /\ qsend = <<"clean">>

\* C7: an accepted stop puts exactly two 'dock' commands, one after the
\* other, writes status only after the second, and returns with status
\* 'searching_dock' even when the watchdog changed status in between.
C7_StopDocksTwice ==
  [][/\ (Called("stop") /\ STATUS[status] >= 1) =>
           (pc' # "idle" /\ seen' = status /\ status' = status /\ qsend' = qsend)
     /\ (CallerStep /\ op = "stop" /\ pc # "idle" /\ status' # status) =>
           (call_puts = <<"dock", "dock">> /\ pc' = "idle")
     /\ ReturnsAccepted("stop") =>
           (call_puts = <<"dock", "dock">> /\ status' = "searching_dock"
            /\ ret' = RetInt(0))
     /\ PutsAreRecorded]_vars

\* Both commands are out and the watchdog has meanwhile forced another status.
C7_Witness ==
  /\ op = "stop" /\ pc = "stop_set"
  /\ call_puts = <<"dock", "dock">>
  /\ seen = "moving" /\ status = "init"

\* C8: motion_continue goes ahead only when it reads status 'paused', and
\* then puts exactly one 'clean' command and sets status to 'moving'; invoked
\* in any other status it returns nonzero at once, puts no command and
\* leaves status unchanged.
C8_ContinueOnlyWhenPaused ==
  [][/\ (Called("motion_continue") /\ status # "paused") => RejectedAtOnce
     /\ (Called("motion_continue") /\ status = "paused") =>
           (pc' # "idle" /\ status' = status /\ qsend' = qsend)
     /\ ReturnsAccepted("motion_continue") =>
           (call_puts = <<"clean">> /\ status' = "moving")
     /\ PutsAreRecorded]_vars

C8_Witness ==
  /\ pc = "idle" /\ op = "motion_continue" /\ status = "moving"
  /\ pc_w = "w_get" /\ qsend = <<"clean">>

\* C9: get_battery invoked while status is 'closed' returns -1, whatever
\* battery value the watchdog computed before.
C9_BatteryUnknownWhenClosed ==
  [][(ReturnsAccepted("get_battery") /\ seen = "closed") => ret' = RetInt(-1)]_vars

\* get_battery found status 'closed' and a battery value left by the watchdog.
C9_Witness ==
  /\ op = "get_battery" /\ pc = "battery_set"
  /\ seen = "closed" /\ status = "closed" /\ battery >= 0

\* C10: get_position invoked while status ranks below 'init' returns a
\* position triple as a normal result.
C10_PositionReturnedBelowInit ==
  (pc = "idle" /\ op = "get_position" /\ STATUS[status] < 1) => ret.kind = "pos"

\* C11: status becomes 'error' only by a failed init_roomba, and once it is
\* 'error' no command, reader or watchdog step changes it: only a new run of
\* init_roomba does.
C11_ErrorOnlyByInit ==
  [][/\ (status # "error" /\ status' = "error") =>
           (op = "init_roomba" /\ pc = "init_open" /\ robot_connect' = FALSE
            /\ ret' = RetInt(1))
     /\ (status = "error" /\ status' # "error") =>
           (op = "init_roomba" /\ pc = "init_open")]_vars

\* A command was tried in 'error' and turned down.
C11_Witness ==
  /\ pc = "idle" /\ op = "motion_searchdock" /\ status = "error"
  /\ ret = RetInt(1)

\* C12: battery is -1 or a percentage between 0 and 100 in every reachable
\* state.
C12_BatteryIsPercentage ==
  battery = -1 \/ (0 <= battery /\ battery <= 100)

\* ---- observing the watchdog
WatchdogStep == pc_w' # pc_w
WheelDropped ==
  sensor_list.LEFT_WHEEL_DROP # 0 \/ sensor_list.RIGHT_WHEEL_DROP # 0
\* The watchdog is done with the frame it read.
FrameProcessed ==
  /\ WatchdogStep
  /\ pc_w \in {"w_rank", "w_battery"}
  /\ pc_w' \in {"w_loop", "crashed"}

C14_DockedPositionIsOrigin ==
  [][(/\ ReturnsAccepted("get_position") /\ ret'.kind = "pos"
      /\ seen = "docked" /\ status = "docked"
      /\ sensor_list.HOME_BASE = 1 /\ ~WheelDropped
      /\ robot_pos = Origin)
        => ret'.val = Origin]_vars

\* C15: the status a command tested is still the status when the command
\* writes its new status: no write of the watchdog falls between the two.
C15_CheckAndWriteAtomic ==
  [][(/\ CallerStep
      /\ pc \in {"start_set", "stop_set", "pause_set", "continue_set",
                 "searchdock_set"})
        => status = seen]_vars

\* C17: whenever status is 'error' after a failed init_roomba, a watchdog
\* thread is running (to put 'safe' on the queue for every frame).
C17_WatchdogRunsInError ==
  (pc = "idle" /\ status = "error") => WatchAlive

\* C18: the watchdog thread ends only once the stop flag is set: no frame
\* makes it fail.
C18_WatchdogEndsOnlyOnStop ==
  [][(WatchAlive /\ ~WatchAlive') => ~watch_run]_vars

\* C19: the watchdog thread is alive only while the serial thread is alive,
\* told to run, and the serial handle is open.
C19_WatchdogWithinTransport ==
  WatchAlive => (SerialAlive /\ serial_run /\ serial_open)

\* close_roomba has seen the watchdog end by the stop flag and only then told
\* the serial thread, still alive, to stop.
C19_Witness ==
  /\ op = "close_roomba" /\ pc = "close_join_serial"
  /\ pc_w = "done" /\ SerialAlive /\ ~serial_run /\ serial_open

\* C20: after a frame processed with status above 'init', battery is
\* floor(100 * charge / capacity) of that frame.
C20_BatteryIsFloor ==
  [][(WatchdogStep /\ pc_w = "w_battery" /\ pc_w' = "w_loop")
        => battery' = (100 * sensor_list.BATTERY_CHARGE)
                         \div sensor_list.BATTERY_CAPACITY]_vars

\* C16: once close_roomba has cleared watch_run, close_roomba returns, even
\* if no further frame arrives.
C16_CloseTerminates ==
  (op = "close_roomba" /\ pc = "close_join_watch") ~> (pc = "idle")

====
